---- MODULE Spec2Model ----
(***************************************************************************)
(* A model of libavfilter/vf_framerate.c: the frame-rate conversion        *)
(* filter.  The FrameRateContext is the record s; filter_frame and         *)
(* request_frame are the two handlers.  Frames are uniform 8x8 pictures    *)
(* identified by the order of arrival (id) with one sample value (luma).   *)
(* Doubles (scene scores) are exact fixed-point numbers in units of        *)
(* 1/DblUnit.  The upstream source delivers frames until it reports        *)
(* end-of-stream and delivers none afterwards; the sink may reject a       *)
(* pushed frame.  Buffer allocation is assumed to succeed and input        *)
(* timestamps are 0 .. MaxPts or AV_NOPTS_VALUE.                           *)
(*                                                                         *)
(* Spec is the filter driven by its two handlers.  SpecScenario and        *)
(* SpecLag drive the same handlers with particular options; SpecSample     *)
(* applies the blend formula to one sample, SpecTimebase applies           *)
(* config_output to a time base and a frame rate, and SpecSlices runs the  *)
(* slice workers of one blend, one row at a time.                          *)
(* SpecOwner adds the teardown (uninit) and counts the calls of            *)
(* av_frame_free on every input frame.                                     *)
(***************************************************************************)
EXTENDS Integers, Sequences, FiniteSets, TLC

\* ------------------------------------------------------------ bounds
MaxFrames == 3          \* input frames delivered by the upstream source
MaxPts == 2             \* largest source timestamp (source time base)
MaxFailAt == 1          \* the sink may reject the k-th push of a call, k <= MaxFailAt

\* --------------------------------------------------------- constants
AV_NOPTS_VALUE == -2147483647
AVERROR_EOF == -541478725
AVERROR_EIO == -5
FRAMERATE_FLAG_SCD == 1
DblUnit == 5120         \* a double d is the integer d * DblUnit

NULL == [id |-> 0, pts |-> 0, luma |-> 0]
NoWork == [kind |-> "none"]

Abs(x) == IF x < 0 THEN -x ELSE x
Min(a, b) == IF a < b THEN a ELSE b
Max(a, b) == IF a > b THEN a ELSE b
Pow2(k) == 2^k

\* ---------------------------------------------- libavutil arithmetic
RECURSIVE av_gcd(_, _)
av_gcd(a, b) == IF b = 0 THEN a ELSE av_gcd(b, a % b)

\* av_rescale: a * b / c rounded to nearest, halfway cases away from zero
av_rescale(a, b, c) ==
    IF a < 0 THEN -(((-a) * b + (c \div 2)) \div c)
    ELSE (a * b + (c \div 2)) \div c

av_rescale_q(a, bq, cq) == av_rescale(a, bq.num * cq.den, cq.num * bq.den)

av_inv_q(q) == [num |-> q.den, den |-> q.num]

\* av_reduce of num/den, both positive and within INT_MAX: the fraction in
\* lowest terms, exact
av_reduce(num, den) ==
    LET g == av_gcd(num, den)
    IN [num |-> num \div g, den |-> den \div g, exact |-> 1]

\* -------------------------------------------------------- the options
\* 4x upsampling (time base 1/1, 4 fps) and 2x downsampling (time base 1/2, 1 fps)
TimeOptions ==
    { [tb |-> [num |-> 1, den |-> 1], fps |-> [num |-> 4, den |-> 1]],
      [tb |-> [num |-> 1, den |-> 2], fps |-> [num |-> 1, den |-> 1]] }

\* interp_start / interp_end, each 0..255: the defaults, the widest range and
\* a range that ends before the midpoint
InterpOptions ==
    { [start |-> 15, end |-> 240],
      [start |-> 0, end |-> 255],
      [start |-> 15, end |-> 60] }

FlagOptions == {0, FRAMERATE_FLAG_SCD}

\* the "scene" option, a double >= 0: 0.0 and the default 8.2
SceneOptions == {0, 41984}

Lumas == {16, 200}

Options ==
    [time : TimeOptions, interp : InterpOptions, flags : FlagOptions,
     scene : SceneOptions, bitdepth : {8}]
    \cup
    [time : TimeOptions, interp : {[start |-> 15, end |-> 240]},
     flags : {FRAMERATE_FLAG_SCD}, scene : {41984}, bitdepth : {10}]

\* -------------------------------------------------------- setup code
init(o) ==
    [dest_frame_rate |-> o.time.fps,
     flags |-> o.flags,
     scene_score |-> o.scene,
     interp_start |-> 0,
     interp_end |-> 0,
     interp_start_param |-> o.interp.start,
     interp_end_param |-> o.interp.end,
     srce_time_base |-> [num |-> 0, den |-> 1],
     dest_time_base |-> [num |-> 0, den |-> 1],
     prev_mafd |-> 0,
     max |-> 0,
     bitdepth |-> 0,
     f0 |-> NULL,
     f1 |-> NULL,
     pts0 |-> 0,
     pts1 |-> 0,
     delta |-> 0,
     score |-> 0,
     scored |-> 0,       \* calls of get_scene_score since the window last shifted
     flush |-> 0,
     start_pts |-> AV_NOPTS_VALUE,
     n |-> 0]

config_input(c, o) ==
    [c EXCEPT !.bitdepth = o.bitdepth,
              !.interp_start = c.interp_start_param * Pow2(o.bitdepth - 8),
              !.interp_end = c.interp_end_param * Pow2(o.bitdepth - 8),
              !.srce_time_base = o.time.tb,
              !.max = Pow2(o.bitdepth)]

\* the denominator taken from the frame rate's denominator
config_output_rate_den(c) ==
    LET r == av_reduce(av_gcd(c.srce_time_base.num * c.dest_frame_rate.num,
                              c.srce_time_base.den * c.dest_frame_rate.den),
                       c.srce_time_base.den * c.dest_frame_rate.den)
    IN [c EXCEPT !.dest_time_base = [num |-> r.num, den |-> r.den]]

config_output(c) ==
    LET r == av_reduce(av_gcd(c.srce_time_base.num * c.dest_frame_rate.num,
                              c.srce_time_base.den * c.dest_frame_rate.den),
                       c.srce_time_base.den * c.dest_frame_rate.num)
    IN [c EXCEPT !.dest_time_base = [num |-> r.num, den |-> r.den]]

\* ----------------------------------------------------- scene detector
\* SAD of the luma planes of two uniform 8x8 frames
scene_sad(crnt, next) == 64 * Abs(crnt.luma - next.luma)

av_clipf(a, amin, amax) == IF a < amin THEN amin ELSE IF a > amax THEN amax ELSE a

\* get_scene_score: [ret, prev_mafd], doubles in units of 1/DblUnit
get_scene_score(c, crnt, next) ==
    LET sad == scene_sad(crnt, next)
        mafd == (((sad * 100) \div Max(1, 8 * 8)) * DblUnit) \div Pow2(c.bitdepth)
        diff == Abs(mafd - c.prev_mafd)
    IN [ret |-> av_clipf(Min(mafd, diff), 0, 100 * DblUnit), prev_mafd |-> mafd]

\* ------------------------------------------------------- blend engine
\* the rounding term as large as the divisor
blend_luma_round_up(c, src1, src2, src1_factor, src2_factor) ==
    IF c.bitdepth = 8
    THEN ((src1 * src1_factor + src2 * src2_factor + 256) \div 256) % 256
    ELSE ((src1 * src1_factor + src2 * src2_factor + c.max) \div Pow2(c.bitdepth)) % 65536

\* one luma or alpha sample of filter_slice8 / filter_slice16, stored in a
\* uint8_t / uint16_t
blend_luma(c, src1, src2, src1_factor, src2_factor) ==
    IF c.bitdepth = 8
    THEN ((src1 * src1_factor + src2 * src2_factor + 128) \div 256) % 256
    ELSE ((src1 * src1_factor + src2 * src2_factor + (c.max \div 2)) \div Pow2(c.bitdepth)) % 65536

\* the bias of the luma formula: the samples centred but not moved back
blend_chroma_uncentred(c, src1, src2, src1_factor, src2_factor) ==
    IF c.bitdepth = 8
    THEN (((src1 - 128) * src1_factor + (src2 - 128) * src2_factor + 128) \div 256) % 256
    ELSE (((src1 - (c.max \div 2)) * src1_factor + (src2 - (c.max \div 2)) * src2_factor
           + (c.max \div 2)) \div Pow2(c.bitdepth)) % 65536

\* one chroma sample of filter_slice8 (bias 32896) / filter_slice16 (bias
\* uv = (max + 1) * half); >> is the floor of the division
blend_chroma(c, src1, src2, src1_factor, src2_factor) ==
    IF c.bitdepth = 8
    THEN (((src1 - 128) * src1_factor + (src2 - 128) * src2_factor + 32896) \div 256) % 256
    ELSE (((src1 - (c.max \div 2)) * src1_factor + (src2 - (c.max \div 2)) * src2_factor
           + (c.max + 1) * (c.max \div 2)) \div Pow2(c.bitdepth)) % 65536

\* lines 199 / 257: planes 1 and 2 are chroma, planes 0 and 3 luma and alpha
blend_sample(c, plane, src1, src2, src1_factor, src2_factor) ==
    IF plane < 1 \/ plane > 2
    THEN blend_luma(c, src1, src2, src1_factor, src2_factor)
    ELSE blend_chroma(c, src1, src2, src1_factor, src2_factor)

\* line 300: td.src2_factor, a uint16_t
td_src2_factor(interpolate) == interpolate % 65536

\* line 301: td.src1_factor, a uint16_t
td_src1_factor(c, interpolate) == (c.max - td_src2_factor(interpolate)) % 65536

\* a score equal to the threshold still blended
allow_blend_at_threshold(interpolate_scene_score, scene_score) ==
    interpolate_scene_score <= scene_score

\* line 296: the decision of blend_frames
allow_blend(interpolate_scene_score, scene_score) ==
    interpolate_scene_score < scene_score

\* line 292: the score of (f0, f1) computed and cached in s->score
cache_score(c, g) ==
    [c EXCEPT !.score = g.ret, !.prev_mafd = g.prev_mafd, !.scored = c.scored + 1]

\* a cached score of exactly 0 taken for unset
lookup_score_zero_unset(c) ==
    IF (c.flags % 2) = FRAMERATE_FLAG_SCD /\ ~(c.score > 0)
    THEN cache_score(c, get_scene_score(c, c.f0, c.f1))
    ELSE c

\* lines 288-294: the context with the score of the window looked up
lookup_score(c) ==
    IF (c.flags % 2) = FRAMERATE_FLAG_SCD /\ ~(c.score >= 0)
    THEN cache_score(c, get_scene_score(c, c.f0, c.f1))
    ELSE c

\* lines 286-294: interpolate_scene_score
interpolate_scene_score(c) ==
    IF (c.flags % 2) = FRAMERATE_FLAG_SCD THEN c.score ELSE 0

\* lines 297-311: the work frame blended by the slice workers; the factors
\* are the uint16_t fields of ThreadData
blend_work(c, src1_factor, src2_factor) ==
    [kind |-> "blend", src1 |-> c.f0.id, src2 |-> c.f1.id,
     w1 |-> src1_factor, w2 |-> src2_factor,
     luma |-> blend_luma(c, c.f0.luma, c.f1.luma, src1_factor, src2_factor)]

\* lines 296-314, after the score lookup: [ret, s, work]
blend_scored(c, interpolate) ==
    IF allow_blend(interpolate_scene_score(c), c.scene_score)
    THEN [ret |-> 1, s |-> c,
          work |-> blend_work(c, td_src1_factor(c, interpolate),
                              td_src2_factor(interpolate))]
    ELSE [ret |-> 0, s |-> c, work |-> NoWork]

\* blend_frames: [ret, s, work]
blend_frames(c, interpolate) == blend_scored(lookup_score(c), interpolate)

av_frame_clone(f) ==
    [kind |-> "clone", src1 |-> f.id, src2 |-> 0, w1 |-> 0, w2 |-> 0, luma |-> f.luma]

\* ---------------------------------------------------------- scheduler
\* line 442: a source timestamp in the destination time base
Rescaled(c, p) == av_rescale_q(p, c.srce_time_base, c.dest_time_base)

\* a candidate numbered from one instead of zero
work_pts_from_one(c) ==
    c.start_pts + av_rescale_q(c.n + 1, av_inv_q(c.dest_frame_rate), c.dest_time_base)

\* line 329: the candidate timestamp of the next output
work_pts(c) ==
    c.start_pts + av_rescale_q(c.n, av_inv_q(c.dest_frame_rate), c.dest_time_base)

\* a candidate equal to pts1 still counted as due
not_due_after_pts1(c, wpts) == wpts > c.pts1 /\ c.flush = 0

\* line 331: no output is due before the next input arrives
not_due(c, wpts) == wpts >= c.pts1 /\ c.flush = 0

\* a flushed candidate equal to pts1 + delta still emitted
past_flush_end_exclusive(c, wpts) == wpts > c.pts1 + c.delta /\ c.flush = 1

\* line 337: a flushed candidate at or past the end of the last window is not emitted
past_flush_end(c, wpts) == wpts >= c.pts1 + c.delta /\ c.flush = 1

\* lines 347-351: the result b of blend_frames, or the clone chosen by the midpoint
blend_or_clone(c, interpolate, b) ==
    IF b.ret = 0
    THEN [s |-> b.s,
          work |-> av_frame_clone(IF interpolate > c.max \div 2 THEN c.f1 ELSE c.f0),
          interpolate |-> interpolate]
    ELSE [s |-> b.s, work |-> b.work, interpolate |-> interpolate]

\* no dead zone: blend_frames called for every ratio
choose_work_always_blend(c, interpolate) ==
    blend_or_clone(c, interpolate, blend_frames(c, interpolate))

\* the dead zones exchanged: f0 cloned past interp_end, f1 before interp_start
choose_work_swapped(c, interpolate) ==
    IF interpolate > c.interp_end
    THEN [s |-> c, work |-> av_frame_clone(c.f0), interpolate |-> interpolate]
    ELSE IF interpolate < c.interp_start
    THEN [s |-> c, work |-> av_frame_clone(c.f1), interpolate |-> interpolate]
    ELSE blend_or_clone(c, interpolate, blend_frames(c, interpolate))

\* lines 342-352: the frame chosen for the ratio interpolate
choose_work(c, interpolate) ==
    IF interpolate > c.interp_end
    THEN [s |-> c, work |-> av_frame_clone(c.f1), interpolate |-> interpolate]
    ELSE IF interpolate < c.interp_start
    THEN [s |-> c, work |-> av_frame_clone(c.f0), interpolate |-> interpolate]
    ELSE blend_or_clone(c, interpolate, blend_frames(c, interpolate))

\* lines 340-352: the frame chosen for a candidate with both frames held
interpolate_work(c, wpts) == choose_work(c, av_rescale(wpts - c.pts0, c.max, c.delta))

\* what the emitted frame records of the window it was made from
Stamp(c, w, wpts, interpolate, two) ==
    [kind |-> w.kind, src1 |-> w.src1, src2 |-> w.src2, w1 |-> w.w1, w2 |-> w.w2,
     luma |-> w.luma, pts |-> wpts, n |-> c.n,
     f0 |-> c.f0.id, f1 |-> c.f1.id, pts0 |-> c.pts0, pts1 |-> c.pts1,
     interpolate |-> IF two THEN interpolate ELSE 0,
     score |-> c.score, scored |-> c.scored, flush |-> c.flush]

\* lines 355-361: the chosen frame iw stamped with the candidate, n++
stamp_work(c, wpts, iw) ==
    [ret |-> 1, s |-> [iw.s EXCEPT !.n = c.n + 1],
     work |-> Stamp(iw.s, iw.work, wpts, iw.interpolate, TRUE)]

\* lines 324-361 for the candidate wpts: [ret, s, work]
process_candidate(c, wpts) ==
    IF c.f1 = NULL THEN [ret |-> 0, s |-> c, work |-> NoWork]
    ELSE IF c.f0 = NULL /\ c.flush = 0 THEN [ret |-> 0, s |-> c, work |-> NoWork]
    ELSE IF not_due(c, wpts) THEN [ret |-> 0, s |-> c, work |-> NoWork]
    ELSE IF c.f0 = NULL
    THEN [ret |-> 1, s |-> [c EXCEPT !.n = c.n + 1],
          work |-> Stamp(c, av_frame_clone(c.f1), wpts, 0, FALSE)]
    ELSE IF past_flush_end(c, wpts) THEN [ret |-> 0, s |-> c, work |-> NoWork]
    ELSE stamp_work(c, wpts, interpolate_work(c, wpts))

\* process_work_frame: [ret, s, work]
process_work_frame(c) == process_candidate(c, work_pts(c))

\* ff_filter_frame on the output link: the sink accepts the frame (0) or
\* rejects the failAt-th push of this call
ff_filter_frame(pushes, failAt) == IF failAt # 0 /\ pushes = failAt THEN AVERROR_EIO ELSE 0

\* the duplicate test without the test that f1 is held
ignore_frame_without_f1(c, inpicref, pts) ==
    \/ inpicref.pts = AV_NOPTS_VALUE
    \/ pts = c.pts1

\* lines 437-446: a frame without timestamp or with the timestamp of f1 is ignored
ignore_frame(c, inpicref, pts) ==
    \/ inpicref.pts = AV_NOPTS_VALUE
    \/ (c.f1 # NULL /\ pts = c.pts1)

\* delta measured from the frame that leaves the window
shift_window_stale_delta(c, inpicref, pts) ==
    [c EXCEPT !.f0 = c.f1, !.pts0 = c.pts1, !.f1 = inpicref, !.pts1 = pts,
              !.delta = pts - c.pts0, !.score = -DblUnit, !.scored = 0]

\* lines 448-454: the window shifts
shift_window(c, inpicref, pts) ==
    [c EXCEPT !.f0 = c.f1, !.pts0 = c.pts1, !.f1 = inpicref, !.pts1 = pts,
              !.delta = pts - c.pts1, !.score = -DblUnit, !.scored = 0]

\* the output counter restarted on every window shift
discontinuity_restarts_n(c) ==
    IF c.delta < 0
    THEN [c EXCEPT !.start_pts = c.pts1, !.n = 0, !.f0 = NULL]
    ELSE [c EXCEPT !.n = 0]

\* the older frame kept across a discontinuity
discontinuity_keeps_f0(c) ==
    IF c.delta < 0
    THEN [c EXCEPT !.start_pts = c.pts1, !.n = 0]
    ELSE c

\* lines 456-461: PTS discontinuity
discontinuity(c) ==
    IF c.delta < 0
    THEN [c EXCEPT !.start_pts = c.pts1, !.n = 0, !.f0 = NULL]
    ELSE c

\* lines 463-464
first_start_pts(c) ==
    IF c.start_pts = AV_NOPTS_VALUE THEN [c EXCEPT !.start_pts = c.pts1] ELSE c

\* lines 466-473: the do/while loop, [ret, s, out]; emitted are the frames
\* pushed so far
RECURSIVE work_loop(_, _, _)

\* lines 470-471: the work frame of r pushed as the last of em
push_work(r, em, failAt) ==
    IF ff_filter_frame(Len(em), failAt) >= 0
    THEN work_loop(r.s, em, failAt)
    ELSE [ret |-> ff_filter_frame(Len(em), failAt), s |-> r.s, out |-> em]

\* lines 467-470: r is what process_work_frame returned
loop_step(r, emitted, failAt) ==
    IF r.ret <= 0
    THEN [ret |-> r.ret, s |-> r.s, out |-> emitted]
    ELSE push_work(r, Append(emitted, r.work), failAt)

work_loop(c, emitted, failAt) == loop_step(process_work_frame(c), emitted, failAt)

\* lines 443-473 with the rescaled timestamp pts: [ret, s, out]
filter_frame_pts(c, inpicref, pts, failAt) ==
    IF ignore_frame(c, inpicref, pts)
    THEN [ret |-> 0, s |-> c, out |-> <<>>]
    ELSE work_loop(first_start_pts(discontinuity(shift_window(c, inpicref, pts))),
                   <<>>, failAt)

\* filter_frame: [ret, s, out]
filter_frame(c, inpicref, failAt) ==
    filter_frame_pts(c, inpicref,
                     IF inpicref.pts = AV_NOPTS_VALUE THEN AV_NOPTS_VALUE
                     ELSE Rescaled(c, inpicref.pts),
                     failAt)

\* the flush repeated on every end-of-stream
should_flush_again(c, ret) == ret = AVERROR_EOF /\ c.f1 # NULL

\* line 530: the first end-of-stream with a frame held starts the flush
should_flush(c, ret) == ret = AVERROR_EOF /\ c.f1 # NULL /\ c.flush = 0

\* lines 532-535: r is what process_work_frame returned
flush_work(r, failAt) ==
    IF r.ret < 0 THEN [ret |-> r.ret, s |-> r.s, out |-> <<>>]
    ELSE IF r.ret # 0
    THEN [ret |-> ff_filter_frame(1, failAt), s |-> r.s, out |-> <<r.work>>]
    ELSE [ret |-> AVERROR_EOF, s |-> r.s, out |-> <<>>]

\* request_frame when ff_request_frame on the input returns AVERROR_EOF:
\* [ret, s, out]
request_frame(c, failAt) ==
    IF should_flush(c, AVERROR_EOF)
    THEN flush_work(process_work_frame([c EXCEPT !.flush = 1]), failAt)
    ELSE [ret |-> AVERROR_EOF, s |-> c, out |-> <<>>]

\* ------------------------------------------------------------- state
VARIABLES
    s,          \* the FrameRateContext
    nframes,    \* frames delivered by the upstream source so far
    eof,        \* the upstream source has reported end-of-stream
    call,       \* the handler that ran last, its input and its return value
    out,        \* the frames pushed to the sink by the last call, in order
    prev,       \* the last frame pushed to the sink before the last call
    first,      \* the first frame accepted since the last cursor reset
    cnt,        \* frames pushed to the sink since the last cursor reset
    accepted1,  \* the first frame ever accepted
    after_eof,  \* frames pushed to the sink since upstream end-of-stream
    td,         \* the arguments of the function under study (ThreadData, geometry)
    dst         \* what that function has written or returned so far

vars == <<s, nframes, eof, call, out, prev, first, cnt, accepted1, after_eof, td, dst>>

\* no function is under study
Idle == [op |-> "none"]

InPts == {AV_NOPTS_VALUE} \cup (0 .. MaxPts)

NoCall == [op |-> "none", frame |-> NULL, ret |-> 0, accepted |-> FALSE,
           reset |-> FALSE,
           pre |-> [n |-> 0, flush |-> 0, f1 |-> 0, pts1 |-> 0]]

\* the emitted frames with their position since the last reset
Tag(seq, base, fst) ==
    [i \in 1 .. Len(seq) |-> [w |-> seq[i], k |-> base + i - 1, first |-> fst]]

Init ==
    /\ \E o \in Options : s = config_output(config_input(init(o), o))
    /\ nframes = 0
    /\ eof = FALSE
    /\ call = NoCall
    /\ out = <<>>
    /\ prev = <<>>
    /\ accepted1 = NULL
    /\ first = NULL
    /\ cnt = 0
    /\ after_eof = 0
    /\ td = Idle
    /\ dst = Idle

\* the context and the observations after a handler returned r
Returned(op, inpicref, accepted, reset, r) ==
    /\ s' = r.s
    /\ call' = [op |-> op, frame |-> inpicref, ret |-> r.ret,
                accepted |-> accepted, reset |-> reset,
                pre |-> [n |-> s.n, flush |-> s.flush, f1 |-> s.f1.id, pts1 |-> s.pts1]]
    /\ out' = Tag(r.out, IF reset THEN 0 ELSE cnt, IF reset THEN inpicref.id ELSE first.id)
    /\ prev' = IF out = <<>> THEN prev ELSE <<out[Len(out)]>>
    /\ first' = IF reset THEN inpicref ELSE first
    /\ cnt' = (IF reset THEN 0 ELSE cnt) + Len(r.out)
    /\ accepted1' = IF accepted /\ accepted1 = NULL THEN inpicref ELSE accepted1
    /\ after_eof' = IF op = "request_frame" THEN after_eof + Len(r.out) ELSE after_eof

\* the frame is accepted: it has a timestamp other than that of the f1 held
Accepted(inpicref) ==
    /\ inpicref.pts # AV_NOPTS_VALUE
    /\ ~(s.f1 # NULL /\ Rescaled(s, inpicref.pts) = s.pts1)

\* the frame starts a new cursor: it is the first frame, or its timestamp
\* is below pts1
Resets(inpicref) ==
    /\ Accepted(inpicref)
    /\ (s.f1 = NULL \/ Rescaled(s, inpicref.pts) < s.pts1)

\* the upstream source pushes a frame
FilterFrame ==
    /\ ~eof
    /\ nframes < MaxFrames
    /\ \E p \in InPts, l \in Lumas, failAt \in 0 .. MaxFailAt :
          Returned("filter_frame", [id |-> nframes + 1, pts |-> p, luma |-> l],
                   Accepted([id |-> nframes + 1, pts |-> p, luma |-> l]),
                   Resets([id |-> nframes + 1, pts |-> p, luma |-> l]),
                   filter_frame(s, [id |-> nframes + 1, pts |-> p, luma |-> l], failAt))
    /\ nframes' = nframes + 1
    /\ UNCHANGED <<eof, td, dst>>

\* the sink requests a frame and the upstream source is at end-of-stream
RequestFrame ==
    /\ \E failAt \in 0 .. MaxFailAt :
          Returned("request_frame", NULL, FALSE, FALSE, request_frame(s, failAt))
    /\ eof' = TRUE
    /\ UNCHANGED <<nframes, td, dst>>

Next == FilterFrame \/ RequestFrame

Spec == Init /\ [][Next]_vars

\* ------------------------------------- the blend formula, one sample
\* the scheduler has not run
Quiet ==
    /\ nframes = 0
    /\ eof = FALSE
    /\ call = NoCall
    /\ out = <<>>
    /\ prev = <<>>
    /\ accepted1 = NULL
    /\ first = NULL
    /\ cnt = 0
    /\ after_eof = 0

handlervars == <<nframes, eof, call, out, prev, first, cnt, accepted1, after_eof>>

WeightSteps == 16       \* weights tried: the multiples of max / WeightSteps, 1 and max - 1

\* the component depths of the formats of query_formats
BitDepths == {8, 9, 10, 12}

SampleOptions ==
    [time : {[tb |-> [num |-> 1, den |-> 25], fps |-> [num |-> 50, den |-> 1]]},
     interp : {[start |-> 15, end |-> 240]}, flags : {FRAMERATE_FLAG_SCD},
     scene : {41984}, bitdepth : BitDepths]

\* every sample value of the depth
Samples(c) == 0 .. c.max - 1

\* a few values for the other source
Probes(c) == {0, c.max \div 2, c.max - 1}

\* the ratios tried, 0 and max among them
Weights(c) ==
    {w \in 0 .. c.max : w % (c.max \div WeightSteps) = 0} \cup {1, c.max - 1}

\* <<src1, src2, interpolate>>: every sample against the probes at ratio 0
\* and max, on every plane; two equal chroma samples at every ratio tried
SampleCases(c, plane) ==
    (Samples(c) \X Probes(c) \X {0})
    \cup (Probes(c) \X Samples(c) \X {c.max})
    \cup IF plane < 1 \/ plane > 2 THEN {}
         ELSE {<<x, x, w>> : x \in Samples(c), w \in Weights(c)}

InitSample ==
    /\ \E o \in SampleOptions : s = config_output(config_input(init(o), o))
    /\ Quiet
    /\ td = Idle
    /\ dst = Idle

\* one sample of one plane blended by a slice worker
FilterSample ==
    /\ td = Idle
    /\ \E plane \in 0 .. 3 :
          \E x \in SampleCases(s, plane) :
              /\ td' = [op |-> "filter_slice", plane |-> plane,
                        src1 |-> x[1], src2 |-> x[2],
                        src1_factor |-> td_src1_factor(s, x[3]),
                        src2_factor |-> td_src2_factor(x[3])]
              /\ dst' = [op |-> "filter_slice",
                         sample |-> blend_sample(s, plane, x[1], x[2],
                                                 td_src1_factor(s, x[3]),
                                                 td_src2_factor(x[3]))]
    /\ UNCHANGED s
    /\ UNCHANGED handlervars

SpecSample == InitSample /\ [][FilterSample]_vars

\* ------------------------------------------- 25 fps in, 50 fps out
\* time base 1/25, 50 fps, scene change detection off, the default dead zone
ScenarioOptions ==
    [time : {[tb |-> [num |-> 1, den |-> 25], fps |-> [num |-> 50, den |-> 1]]},
     interp : {[start |-> 15, end |-> 240]}, flags : {0},
     scene : SceneOptions, bitdepth : BitDepths]

InitScenario ==
    /\ \E o \in ScenarioOptions : s = config_output(config_input(init(o), o))
    /\ Quiet
    /\ td = Idle
    /\ dst = Idle

\* the upstream source pushes the next frame, stamped 0, 1, 2, ...; the sink
\* accepts every frame
ScenarioFrame ==
    /\ nframes < MaxFrames
    /\ \E l \in Lumas :
          Returned("filter_frame", [id |-> nframes + 1, pts |-> nframes, luma |-> l],
                   Accepted([id |-> nframes + 1, pts |-> nframes, luma |-> l]),
                   Resets([id |-> nframes + 1, pts |-> nframes, luma |-> l]),
                   filter_frame(s, [id |-> nframes + 1, pts |-> nframes, luma |-> l], 0))
    /\ nframes' = nframes + 1
    /\ UNCHANGED <<eof, td, dst>>

SpecScenario == InitScenario /\ [][ScenarioFrame]_vars

\* -------------------------------------- the destination time base
MaxRat == 4             \* numerators and denominators of the time base and the rate

\* source time base a/b and frame rate p/q, a, b, p, q in 1 .. MaxRat
RationalOptions ==
    [time : [tb : [num : 1 .. MaxRat, den : 1 .. MaxRat],
             fps : [num : 1 .. MaxRat, den : 1 .. MaxRat]],
     interp : {[start |-> 15, end |-> 240]}, flags : {FRAMERATE_FLAG_SCD},
     scene : {41984}, bitdepth : {8}]

\* the input link is configured, the output link is not yet
InitTimebase ==
    /\ \E o \in RationalOptions : s = config_input(init(o), o)
    /\ Quiet
    /\ td = Idle
    /\ dst = Idle

\* the output link is configured
ConfigOutput ==
    /\ s.dest_time_base.num = 0
    /\ s' = config_output(s)
    /\ UNCHANGED <<td, dst>>
    /\ UNCHANGED handlervars

SpecTimebase == InitTimebase /\ [][ConfigOutput]_vars

\* ------------------------------------------ the slice workers of a blend
MaxWidth == 2           \* frame width in samples
MaxHeight == 3          \* frame height in rows
MaxThreads == 3         \* ff_filter_get_nb_threads

\* some formats of query_formats: depth, log2_chroma_w, log2_chroma_h
\* (yuv420p, yuv444p, yuv410p, yuv420p10, yuv444p10); all have three planes
Formats ==
    { [bitdepth |-> 8, hsub |-> 1, vsub |-> 1],
      [bitdepth |-> 8, hsub |-> 0, vsub |-> 0],
      [bitdepth |-> 8, hsub |-> 2, vsub |-> 2],
      [bitdepth |-> 10, hsub |-> 1, vsub |-> 1],
      [bitdepth |-> 10, hsub |-> 0, vsub |-> 0] }

NbPlanes == 3

\* the alignments of AVFrame.linesize, in bytes
Aligns == {2, 8}

\* the frames of a blend: format, size, linesize alignment, and the job count
\* of line 311, FFMIN(outlink->h, ff_filter_get_nb_threads(ctx))
Geometries ==
    {[op |-> "execute", bitdepth |-> f.bitdepth, hsub |-> f.hsub, vsub |-> f.vsub,
      w |-> w, h |-> h, align |-> a, nb_jobs |-> Min(h, n)] :
        f \in Formats, w \in 1 .. MaxWidth, h \in 1 .. MaxHeight,
        a \in Aligns, n \in 1 .. MaxThreads}

CeilRshift(x, k) == (x + Pow2(k) - 1) \div Pow2(k)

BytesPerSample(g) == IF g.bitdepth = 8 THEN 1 ELSE 2

\* samples in a row of the plane
PlaneWidth(g, plane) ==
    IF plane > 0 /\ plane < 3 THEN CeilRshift(g.w, g.hsub) ELSE g.w

\* rows of the plane
PlaneRows(g, plane) ==
    IF plane > 0 /\ plane < 3 THEN CeilRshift(g.h, g.vsub) ELSE g.h

\* av_image_get_linesize: bytes of pixel data in a row of the plane
av_image_get_linesize(g, plane) == PlaneWidth(g, plane) * BytesPerSample(g)

\* AVFrame.linesize[plane] of a frame of the buffer pool: bytes from one row
\* to the next
linesize(g, plane) ==
    ((av_image_get_linesize(g, plane) + g.align - 1) \div g.align) * g.align

\* lines 406-409: s->line_size[plane]
line_size(g, plane) == av_image_get_linesize(g, plane)

\* lines 185 / 243: the samples a worker writes in one row
cpy_line_width(g, plane) == line_size(g, plane)

\* lines 192 / 250: samples from one row of the work frame to the next
cpy_dst_line_size(g, plane) ==
    IF g.bitdepth = 8 THEN linesize(g, plane) ELSE linesize(g, plane) \div 2

\* lines 190 / 248
cpy_src_h(g, plane) ==
    IF plane > 0 /\ plane < 3 THEN g.h \div Pow2(g.vsub) ELSE g.h

\* lines 193 / 251
slice_start(g, plane, job) == (cpy_src_h(g, plane) * job) \div g.nb_jobs

\* lines 194 / 252
slice_end(g, plane, job) == (cpy_src_h(g, plane) * (job + 1)) \div g.nb_jobs

\* the position <<plane, line>> of the next row the job writes, from the
\* row <<plane, line>> on; <<NbPlanes, 0>> when the job has returned
RECURSIVE slice_position(_, _, _, _)
slice_position(g, job, plane, line) ==
    IF plane >= NbPlanes THEN <<NbPlanes, 0>>
    ELSE IF line < slice_end(g, plane, job) THEN <<plane, line>>
    ELSE slice_position(g, job, plane + 1, slice_start(g, plane + 1, job))

\* lines 201-211 / 259-265: the samples of the work frame written by the
\* inner loop for one row, <<job, plane, offset>>, offset counted in samples
\* from data[plane]
row_writes(g, job, plane, line) ==
    {<<job, plane, line * cpy_dst_line_size(g, plane) + pixel>> :
        pixel \in 0 .. cpy_line_width(g, plane) - 1}

Jobs == 0 .. td.nb_jobs - 1

\* blend_frames line 311 has handed the jobs to the workers
InitSlices ==
    /\ td \in Geometries
    /\ \E o \in SampleOptions :
          /\ o.bitdepth = td.bitdepth
          /\ s = config_output(config_input(init(o), o))
    /\ dst = [op |-> "execute",
              pos |-> [j \in Jobs |-> slice_position(td, j, 0, slice_start(td, 0, j))],
              written |-> {}]
    /\ Quiet

\* one worker writes the next row of its slice
SliceRow ==
    /\ td.op = "execute"
    /\ \E j \in Jobs :
          /\ dst.pos[j][1] < NbPlanes
          /\ dst' = [dst EXCEPT
                       !.pos[j] = slice_position(td, j, dst.pos[j][1], dst.pos[j][2] + 1),
                       !.written = @ \cup row_writes(td, j, dst.pos[j][1], dst.pos[j][2])]
    /\ UNCHANGED <<s, td>>
    /\ UNCHANGED handlervars

SpecSlices == InitSlices /\ [][SliceRow]_vars

\* --------------------------- a long source tick and a sink that fails
\* time base 1024/1 and 1/1023 frames per second: the destination time base
\* is 1/1, a source tick 1024 and a frame interval 1023 destination ticks;
\* no dead zone at ratio 0
LagOptions ==
    [time : {[tb |-> [num |-> 1024, den |-> 1], fps |-> [num |-> 1, den |-> 1023]]},
     interp : {[start |-> 0, end |-> 255]}, flags : FlagOptions,
     scene : {41984}, bitdepth : {8, 10}]

InitLag ==
    /\ \E o \in LagOptions : s = config_output(config_input(init(o), o))
    /\ Quiet
    /\ td = Idle
    /\ dst = Idle

SpecLag == InitLag /\ [][Next]_vars

\* ------------------------------------------ ownership of input frames
\* td is the session (torn down or not), dst counts per input frame the
\* calls of av_frame_free on it and records the frames that entered the window
OwnerOptions ==
    [time : TimeOptions, interp : {[start |-> 15, end |-> 240]}, flags : {0},
     scene : {41984}, bitdepth : {8}]

\* av_frame_free on each pointer of freed, in order: NULL is skipped
av_frame_free(count, freed) ==
    [i \in DOMAIN count |->
        count[i] + Cardinality({k \in DOMAIN freed : freed[k].id = i})]

\* line 460: the frame freed on a discontinuity, w is the shifted window
discontinuity_frees(w) == IF w.delta < 0 THEN <<w.f0>> ELSE <<>>

\* lines 437-460 with the rescaled timestamp pts: the pointers filter_frame
\* passes to av_frame_free
filter_frame_frees_pts(c, inpicref, pts) ==
    IF ignore_frame(c, inpicref, pts)
    THEN <<>>
    ELSE <<c.f0>> \o discontinuity_frees(shift_window(c, inpicref, pts))

\* the pointers filter_frame passes to av_frame_free
filter_frame_frees(c, inpicref) ==
    filter_frame_frees_pts(c, inpicref,
                           IF inpicref.pts = AV_NOPTS_VALUE THEN AV_NOPTS_VALUE
                           ELSE Rescaled(c, inpicref.pts))

\* lines 371-376: the pointers uninit passes to av_frame_free
uninit_frees(c) == <<c.f0, c.f1>>

\* lines 371-376: av_frame_free leaves the pointers NULL
uninit(c) == [c EXCEPT !.f0 = NULL, !.f1 = NULL]

InitOwner ==
    /\ \E o \in OwnerOptions : s = config_output(config_input(init(o), o))
    /\ Quiet
    /\ td = [op |-> "session", torn |-> FALSE]
    /\ dst = [op |-> "av_frame_free", count |-> [i \in 1 .. MaxFrames |-> 0],
              entered |-> {}]

\* the upstream source hands a frame to filter_frame
OwnerFilterFrame ==
    /\ ~td.torn
    /\ ~eof
    /\ nframes < MaxFrames
    /\ \E p \in InPts, l \in Lumas, failAt \in 0 .. MaxFailAt :
          /\ Returned("filter_frame", [id |-> nframes + 1, pts |-> p, luma |-> l],
                      Accepted([id |-> nframes + 1, pts |-> p, luma |-> l]),
                      Resets([id |-> nframes + 1, pts |-> p, luma |-> l]),
                      filter_frame(s, [id |-> nframes + 1, pts |-> p, luma |-> l], failAt))
          /\ dst' = [dst EXCEPT
                       !.count = av_frame_free(dst.count,
                                    filter_frame_frees(s, [id |-> nframes + 1, pts |-> p, luma |-> l])),
                       !.entered = IF Accepted([id |-> nframes + 1, pts |-> p, luma |-> l])
                                   THEN dst.entered \cup {nframes + 1}
                                   ELSE dst.entered]
    /\ nframes' = nframes + 1
    /\ UNCHANGED <<eof, td>>

\* the sink requests a frame and the upstream source is at end-of-stream
OwnerRequestFrame ==
    /\ ~td.torn
    /\ \E failAt \in 0 .. MaxFailAt :
          Returned("request_frame", NULL, FALSE, FALSE, request_frame(s, failAt))
    /\ eof' = TRUE
    /\ UNCHANGED <<nframes, td, dst>>

\* the filter is torn down
Uninit ==
    /\ ~td.torn
    /\ s' = uninit(s)
    /\ dst' = [dst EXCEPT !.count = av_frame_free(dst.count, uninit_frees(s))]
    /\ td' = [td EXCEPT !.torn = TRUE]
    /\ UNCHANGED handlervars

NextOwner == OwnerFilterFrame \/ OwnerRequestFrame \/ Uninit

SpecOwner == InitOwner /\ [][NextOwner]_vars

\* ------------------------------------------------------------ claims
\* the last frame pushed before the last call, then the frames of the last call
Chain == prev \o out

\* the k-th candidate timestamp of the current cursor
Candidate(k) ==
    s.start_pts + av_rescale_q(k, av_inv_q(s.dest_frame_rate), s.dest_time_base)

\* C1 as stated: every frame pushed to the sink has a pts strictly greater
\* than the pts of the frame pushed before it, across all calls.
C1_StrictlyIncreasingAlways ==
    \A i \in 1 .. Len(Chain) - 1 : Chain[i].w.pts < Chain[i + 1].w.pts

\* C1 amended: between two cursor resets (PTS discontinuities) every frame
\* pushed to the sink has a pts strictly greater than the pts of the frame
\* pushed before it.
C1_StrictlyIncreasingBetweenResets ==
    \A i \in 1 .. Len(Chain) - 1 :
        Chain[i].first = Chain[i + 1].first => Chain[i].w.pts < Chain[i + 1].w.pts

C1_Witness ==
    /\ prev # <<>>
    /\ Len(out) >= 2
    /\ prev[1].first = out[1].first
    /\ call.op = "filter_frame"

\* C2: since the last reset the k-th pushed frame (k = 0, 1, ...) has
\* pts = start_pts + rescale(k, 1/dest_frame_rate, dest_time_base), start_pts
\* is the rescaled pts of the first frame accepted since the reset, and n is
\* the number of frames pushed since the reset (one increment per pushed
\* frame, none otherwise).
C2_CursorArithmetic ==
    /\ s.n = cnt
    /\ first # NULL => s.start_pts = Rescaled(s, first.pts)
    /\ first = NULL => s.start_pts = AV_NOPTS_VALUE /\ s.n = 0
    /\ \A i \in 1 .. Len(out) :
          /\ out[i].w.pts = Candidate(out[i].k)
          /\ out[i].w.n = out[i].k

C2_Witness ==
    /\ first.id > 1
    /\ Len(out) >= 2
    /\ out[Len(out)].k >= 2
    /\ first.pts > 0

\* the candidates from number k0 on that lie below pts1
DueFrom(k0) ==
    {k \in k0 .. k0 + Abs(s.pts1) + Abs(s.start_pts) + 1 : Candidate(k) < s.pts1}

\* the last call was a filter_frame that accepted a frame next to an older
\* one (no reset), and the sink took every frame
ShiftedCall ==
    /\ call.op = "filter_frame"
    /\ call.accepted
    /\ s.f0 # NULL
    /\ s.flush = 0
    /\ call.ret = 0

\* C3: a filter_frame call that accepts a frame next to an older one, with
\* the sink accepting every frame, pushes exactly the candidates below the
\* new pts1, in increasing order, and returns when the next candidate is
\* >= pts1; the number of frames pushed is whatever that takes (0, 1, more).
C3_EmitsEveryDueCandidate ==
    ShiftedCall =>
        /\ Candidate(s.n) >= s.pts1
        /\ s.n = call.pre.n + Len(out)
        /\ DueFrom(call.pre.n) = call.pre.n .. s.n - 1
        /\ \A i \in 1 .. Len(out) :
              /\ out[i].w.pts = Candidate(call.pre.n + i - 1)
              /\ out[i].w.pts < s.pts1
        /\ \A i \in 1 .. Len(out) - 1 : out[i].w.pts < out[i + 1].w.pts

C3_Witness == ShiftedCall /\ Len(out) >= 2

C3_WitnessNone == ShiftedCall /\ Len(out) = 0

C3_WitnessOne == ShiftedCall /\ Len(out) = 1

\* the last call was the first end-of-stream with a frame held
FirstEof ==
    /\ call.op = "request_frame"
    /\ call.pre.flush = 0
    /\ call.pre.f1 # 0

\* C4 as stated: on the first end-of-stream with both frames held the one
\* further candidate is pushed if and only if it does not exceed pts1 + delta.
C4_EmittedUpToBound ==
    FirstEof /\ s.f0 # NULL =>
        (Len(out) = 1 <=> Candidate(call.pre.n) <= s.pts1 + s.delta)

\* C4 amended: on the first end-of-stream exactly one further candidate is
\* evaluated; with both frames held it is pushed if it is strictly below
\* pts1 + delta, and end-of-stream is returned instead if it is equal to or
\* above pts1 + delta; with only f1 held it is pushed unconditionally.
C4_EmittedBelowBound ==
    FirstEof =>
        /\ s.flush = 1
        /\ Len(out) <= 1
        /\ s.f0 # NULL => (Len(out) = 1 <=> Candidate(call.pre.n) < s.pts1 + s.delta)
        /\ s.f0 = NULL => Len(out) = 1
        /\ Len(out) = 1 => out[1].w.pts = Candidate(call.pre.n) /\ s.n = call.pre.n + 1
        /\ Len(out) = 0 <=> call.ret = AVERROR_EOF
        /\ Len(out) = 0 => s.n = call.pre.n

C4_Witness ==
    /\ FirstEof
    /\ s.f0 # NULL
    /\ Len(out) = 1
    /\ out[1].w.pts >= s.pts1

C4_WitnessEof == FirstEof /\ s.f0 # NULL /\ Len(out) = 0

\* C5: after the upstream end-of-stream at most one frame is pushed, the
\* flush runs at most once (flush is set by the first end-of-stream with a
\* frame held and stays set), and every request after it, like an
\* end-of-stream before any frame was accepted, returns end-of-stream,
\* pushes nothing and leaves the output counter alone.
C5_FlushOnce ==
    /\ after_eof <= 1
    /\ eof /\ s.f1 # NULL => s.flush = 1
    /\ s.flush = 1 => eof
    /\ call.op = "request_frame" /\ (call.pre.flush = 1 \/ call.pre.f1 = 0) =>
          /\ call.ret = AVERROR_EOF
          /\ out = <<>>
          /\ s.n = call.pre.n
          /\ s.flush = call.pre.flush

C5_Witness ==
    /\ call.op = "request_frame"
    /\ call.pre.flush = 1
    /\ after_eof = 1

C5_WitnessEmpty == call.op = "request_frame" /\ call.pre.f1 = 0

\* the last call accepted a frame whose rescaled pts is below the pts1 held
\* before the call
DiscontinuityCall ==
    /\ call.op = "filter_frame"
    /\ call.accepted
    /\ Rescaled(s, call.frame.pts) < call.pre.pts1

\* C6: an accepted frame with a rescaled pts below the current pts1 resets
\* the window (f0 cleared, n = 0, start_pts = the new pts) and pushes
\* nothing; afterwards no frame is made from a window whose frames lie on
\* the two sides of the discontinuity.
C6_DiscontinuityResets ==
    /\ DiscontinuityCall =>
          /\ s.f0 = NULL
          /\ s.f1 = call.frame
          /\ s.n = 0
          /\ s.start_pts = Rescaled(s, call.frame.pts)
          /\ s.pts1 = s.start_pts
          /\ out = <<>>
    /\ s.f0 # NULL => s.f0.id >= first.id
    /\ \A i \in 1 .. Len(out) :
          /\ out[i].w.f1 >= out[i].first
          /\ out[i].w.f0 # 0 => out[i].w.f0 >= out[i].first
          /\ out[i].w.src1 >= out[i].first
          /\ out[i].w.kind = "blend" => out[i].w.src2 >= out[i].first

C6_Witness ==
    /\ first.id > 1
    /\ accepted1.id < first.id
    /\ out # <<>>
    /\ out[1].w.f0 # 0

C6_WitnessReset == DiscontinuityCall /\ call.pre.f1 # 0 /\ cnt = 0 /\ prev # <<>>

\* the frame handed to this filter_frame step has no timestamp, or the
\* timestamp of the f1 held
DroppedInput ==
    /\ call'.op = "filter_frame"
    /\ nframes' = nframes + 1
    /\ \/ call'.frame.pts = AV_NOPTS_VALUE
       \/ s.f1 # NULL /\ Rescaled(s, call'.frame.pts) = s.pts1

\* C7: filter_frame with a frame without timestamp, or with the rescaled
\* timestamp of the f1 held, pushes nothing and changes nothing of the
\* context; a frame with a timestamp arriving while no f1 is held is
\* accepted, whatever its timestamp (also 0, the initial pts1).
C7_DroppedFrameChangesNothing ==
    [][/\ DroppedInput => s' = s /\ out' = <<>> /\ ~call'.accepted /\ call'.ret = 0
       /\ (/\ call'.op = "filter_frame"
           /\ nframes' = nframes + 1
           /\ s.f1 = NULL
           /\ call'.frame.pts # AV_NOPTS_VALUE)
          => /\ call'.accepted
             /\ s'.f1 = call'.frame
             /\ s'.pts1 = Rescaled(s, call'.frame.pts)]_vars

C7_Witness ==
    /\ call.op = "filter_frame"
    /\ ~call.accepted
    /\ call.frame.pts # AV_NOPTS_VALUE
    /\ s.n > 0

C7_WitnessFirstZero ==
    /\ call.op = "filter_frame"
    /\ call.accepted
    /\ call.pre.f1 = 0
    /\ call.frame.pts = 0

\* frame w shows the pixels of input frame f at f's rescaled timestamp
ShowsFrame(w, f) ==
    /\ w.pts = Rescaled(s, f.pts)
    /\ w.luma = f.luma
    /\ \/ w.kind = "clone" /\ w.src1 = f.id
       \/ w.kind = "blend" /\ w.src1 = f.id /\ w.w2 = 0 /\ w.w1 = s.max

\* C8 as stated: the first frame ever pushed to the sink shows the first
\* accepted input frame at that frame's rescaled timestamp.
C8_FirstOutputIsFirstInput ==
    prev = <<>> /\ out # <<>> => ShowsFrame(out[1].w, accepted1)

\* C8 amended: the first frame pushed since the start or since the last
\* cursor reset shows the first input frame accepted since then, at that
\* frame's rescaled timestamp.
C8_FirstOutputSinceReset ==
    \A i \in 1 .. Len(out) : out[i].k = 0 => ShowsFrame(out[i].w, first)

C8_Witness ==
    /\ out # <<>>
    /\ out[1].k = 0
    /\ first.id > accepted1.id
    /\ out[1].w.f0 # 0

C8_WitnessBlend == out # <<>> /\ out[1].k = 0 /\ out[1].w.kind = "blend"

C8_WitnessFlush == out # <<>> /\ out[1].k = 0 /\ out[1].w.f0 = 0

\* the frame was made for a candidate inside [interp_start, interp_end]
\* with both frames held
InBlendRange(w) ==
    /\ w.f0 # 0
    /\ s.interp_start <= w.interpolate
    /\ w.interpolate <= s.interp_end

ScdEnabled == s.flags % 2 = FRAMERATE_FLAG_SCD

IsBlend(w) ==
    /\ w.kind = "blend"
    /\ w.src1 = w.f0
    /\ w.src2 = w.f1
    /\ w.w2 = w.interpolate
    /\ w.w1 = s.max - w.interpolate

\* C9: with scene-change detection disabled every candidate with both frames
\* held and interp_start <= ratio <= interp_end is a blend of f0 and f1 with
\* weight2 = ratio and weight1 = max - ratio, for every scene threshold >= 0.
C9_BlendWhenScdDisabled ==
    \A i \in 1 .. Len(out) :
        ~ScdEnabled /\ InBlendRange(out[i].w) => IsBlend(out[i].w)

\* the same for scene thresholds above 0
C9_BlendWhenScdDisabledPositiveThreshold ==
    \A i \in 1 .. Len(out) :
        ~ScdEnabled /\ s.scene_score > 0 /\ InBlendRange(out[i].w) => IsBlend(out[i].w)

C9_WitnessPositiveThreshold ==
    /\ ~ScdEnabled
    /\ s.scene_score > 0
    /\ Len(out) >= 2
    /\ InBlendRange(out[2].w)
    /\ out[2].w.interpolate > 0

\* the frame named by the midpoint rule
MidpointClone(w) ==
    /\ w.kind = "clone"
    /\ w.src1 = IF w.interpolate > s.max \div 2 THEN w.f1 ELSE w.f0

\* the window's score is known and at or above the threshold
CutWindow(w) == ScdEnabled /\ w.f0 # 0 /\ w.score >= 0 /\ w.score >= s.scene_score

\* C10 as stated: with detection enabled and the window's score >= the
\* threshold, every candidate of the window is a clone, of f1 when the ratio
\* is past max/2 and of f0 otherwise, whatever the ratio.
C10_CutWindowClonesByMidpoint ==
    \A i \in 1 .. Len(out) : CutWindow(out[i].w) => MidpointClone(out[i].w)

\* C10 amended: with detection enabled and the window's score >= the
\* threshold, every candidate of the window is a clone and none a blend: for
\* interp_start <= ratio <= interp_end of f1 when the ratio is past max/2 and
\* of f0 otherwise; outside that range of f1 when ratio > interp_end and of
\* f0 when ratio < interp_start.
C10_CutWindowNeverBlends ==
    \A i \in 1 .. Len(out) :
        CutWindow(out[i].w) =>
            /\ out[i].w.kind = "clone"
            /\ InBlendRange(out[i].w) => MidpointClone(out[i].w)
            /\ out[i].w.interpolate > s.interp_end => out[i].w.src1 = out[i].w.f1
            /\ (out[i].w.interpolate <= s.interp_end /\ out[i].w.interpolate < s.interp_start)
                  => out[i].w.src1 = out[i].w.f0

\* two candidates of one cut window inside the range, the second on the
\* cached score and past the midpoint
C10_Witness ==
    /\ s.scene_score > 0
    /\ \E i \in 2 .. Len(out) :
          /\ CutWindow(out[i].w) /\ InBlendRange(out[i].w)
          /\ CutWindow(out[i - 1].w) /\ InBlendRange(out[i - 1].w)
          /\ out[i].w.interpolate > s.max \div 2

\* the ratio of an emitted frame: round(max * (candidate - pts0) / delta)
Ratio(w) == av_rescale(w.pts - w.pts0, s.max, w.pts1 - w.pts0)

\* calls of get_scene_score in the window before the i-th frame of the
\* sequence o was chosen; before is the count when the handler was entered
ScoredBefore(o, i, before) == IF i = 1 THEN before ELSE o[i - 1].w.scored

\* the dead-zone rule for the frame w (the handlers never change interp_start,
\* interp_end, max and flags)
DeadZoneRule(w, before) ==
    /\ w.interpolate = Ratio(w)
    /\ w.interpolate > s.interp_end =>
          w.kind = "clone" /\ w.src1 = w.f1 /\ w.scored = before
    /\ (w.interpolate <= s.interp_end /\ w.interpolate < s.interp_start) =>
          w.kind = "clone" /\ w.src1 = w.f0 /\ w.scored = before
    /\ w.kind = "blend" => InBlendRange(w)
    /\ w.scored # before => InBlendRange(w) /\ ScdEnabled

\* C11: every frame made with both f0 and f1 held has ratio =
\* round(max * (candidate - pts0) / delta); for ratio > interp_end it is a
\* clone of f1, otherwise for ratio < interp_start a clone of f0, and for
\* these the scene detector is not called and nothing is blended; the
\* detector and the blend engine are used only for
\* interp_start <= ratio <= interp_end, the 0-255 options shifted left by
\* bitdepth - 8.
C11_DeadZoneRule ==
    [][/\ \A i \in 1 .. Len(out') :
              out'[i].w.f0 # 0 =>
                  DeadZoneRule(out'[i].w,
                               ScoredBefore(out', i, IF call'.accepted THEN 0 ELSE s.scored))
       /\ s'.interp_start = s'.interp_start_param * Pow2(s'.bitdepth - 8)
       /\ s'.interp_end = s'.interp_end_param * Pow2(s'.bitdepth - 8)]_vars

\* at 10 bits a blend inside the range was followed, in the flush, by a clone
\* of f1 above interp_end
C11_Witness ==
    /\ s.bitdepth = 10
    /\ Len(Chain) = 2
    /\ InBlendRange(Chain[1].w) /\ Chain[1].w.kind = "blend"
    /\ Chain[2].w.f0 # 0 /\ Chain[2].w.interpolate > s.interp_end
    /\ Chain[2].w.kind = "clone" /\ Chain[2].w.src1 = Chain[2].w.f1

\* at 10 bits one call made a clone of f0 below interp_start and then a blend
C11_WitnessBelow ==
    /\ s.bitdepth = 10
    /\ \E i, j \in 1 .. Len(out) :
          /\ out[i].w.f0 # 0 /\ out[i].w.interpolate < s.interp_start
          /\ out[i].w.kind = "clone" /\ out[i].w.src1 = out[i].w.f0
          /\ InBlendRange(out[j].w) /\ out[j].w.kind = "blend" /\ out[j].w.scored = 1

\* C12: a blend at ratio 0 (weight of f1 = 0, weight of f0 = max) gives f0's
\* sample and a blend at ratio max (weight of f1 = max, weight of f0 = 0)
\* gives f1's sample, for every sample value 0 .. max - 1, on luma, alpha and
\* chroma planes, at 8 bits and at 9, 10 and 12 bits.
C12_BlendBoundary ==
    td.op = "filter_slice" =>
        /\ (td.src2_factor = 0 /\ td.src1_factor = s.max) => dst.sample = td.src1
        /\ (td.src2_factor = s.max /\ td.src1_factor = 0) => dst.sample = td.src2

\* the largest 12-bit chroma sample of f1 against 0 in f0, at ratio max
C12_Witness ==
    /\ td.op = "filter_slice"
    /\ s.bitdepth = 12
    /\ td.plane = 2
    /\ td.src2_factor = s.max /\ td.src1_factor = 0
    /\ td.src1 = 0 /\ td.src2 = s.max - 1
    /\ dst.sample = s.max - 1

\* an 8-bit luma sample of f0 against the largest sample in f1, at ratio 0
C12_WitnessLuma8 ==
    /\ td.op = "filter_slice"
    /\ s.bitdepth = 8
    /\ td.plane = 0
    /\ td.src2_factor = 0 /\ td.src1_factor = 256
    /\ td.src1 = 77 /\ td.src2 = 255
    /\ dst.sample = 77

\* C13: two chroma samples both equal to c, 0 <= c <= max - 1, blended with
\* weights that sum to max give c, at 8 bits (bias 32896) and at 9, 10 and 12
\* bits (bias (max + 1) * half).
C13_ChromaNeutral ==
    (/\ td.op = "filter_slice"
     /\ td.plane \in {1, 2}
     /\ td.src1 = td.src2
     /\ td.src1_factor + td.src2_factor = s.max) => dst.sample = td.src1

\* a 10-bit chroma sample below the centre with two unequal positive weights
C13_Witness ==
    /\ td.op = "filter_slice"
    /\ s.bitdepth = 10
    /\ td.plane = 1
    /\ td.src1 = 3 /\ td.src2 = 3
    /\ td.src2_factor = 64 /\ td.src1_factor = 960
    /\ dst.sample = 3

\* the last call pushed a clone of f0 at pts0 and then a blend of f0 and f1
\* with equal weights half way to pts1
TwoPerInput ==
    /\ Len(out) = 2
    /\ out[1].w.kind = "clone"
    /\ out[1].w.src1 = call.frame.id - 1
    /\ out[1].w.pts = Rescaled(s, call.frame.pts - 1)
    /\ out[2].w.kind = "blend"
    /\ out[2].w.src1 = call.frame.id - 1
    /\ out[2].w.src2 = call.frame.id
    /\ out[2].w.w1 = s.max \div 2
    /\ out[2].w.w2 = s.max \div 2
    /\ 2 * out[2].w.pts = Rescaled(s, call.frame.pts - 1) + Rescaled(s, call.frame.pts)

\* C14: with timestamps 0, 1, 2, ... in time base 1/25, 50 fps out, scene
\* gating disabled and the dead zone 15 .. 240, the first input pushes nothing
\* and every later input pushes exactly two frames: a clone of f0 at f0's
\* rescaled timestamp, then a blend at the midpoint with weight1 = weight2 =
\* max / 2.
C14_ScenarioA ==
    call.op = "filter_frame" =>
        IF call.frame.id = 1 THEN out = <<>> ELSE TwoPerInput

\* the same with a scene threshold above 0
C14_ScenarioAPositiveThreshold ==
    (call.op = "filter_frame" /\ s.scene_score > 0) =>
        IF call.frame.id = 1 THEN out = <<>> ELSE TwoPerInput

\* the third input of the scenario made its two frames
C14_WitnessPositiveThreshold ==
    /\ call.op = "filter_frame"
    /\ s.scene_score > 0
    /\ call.frame.id = 3
    /\ TwoPerInput

\* g is the greatest common divisor of x and y
IsGcd(g, x, y) ==
    /\ x % g = 0
    /\ y % g = 0
    /\ \A h \in 1 .. Min(x, y) : (x % h = 0 /\ y % h = 0) => h <= g

\* a/b is a whole multiple of n/d
Multiple(a, b, n, d) == (a * d) % (b * n) = 0

\* the destination time base n/d for the time base a/b and the rate p/q
DestTimeBase(a, b, p, q, n, d) ==
    /\ \E g \in 1 .. a * p : IsGcd(g, a * p, b * q) /\ n * (b * p) = g * d
    /\ IsGcd(1, n, d)
    /\ Multiple(a, b, n, d)
    /\ Multiple(q, p, n, d)
    /\ \A n2, d2 \in 1 .. MaxRat * MaxRat :
          (Multiple(a, b, n2, d2) /\ Multiple(q, p, n2, d2)) => Multiple(n, d, n2, d2)
    /\ \A pts \in (0 - MaxPts) .. MaxPts :
          /\ Rescaled(s, pts) * (b * n) = pts * (a * d)
          /\ pts >= 0 =>
                av_rescale_q(pts, av_inv_q(s.dest_frame_rate), s.dest_time_base) * (p * n)
                    = pts * (q * d)

\* C15: for the source time base a/b and the frame rate p/q the destination
\* time base is gcd(a*p, b*q) / (b*p) in lowest terms; one source tick and
\* one output frame interval are whole multiples of it, it is a whole
\* multiple of every other time base with that property (the coarsest), and
\* rescaling source timestamps and computing candidates rounds nothing.
C15_DestTimeBase ==
    s.dest_time_base.num # 0 =>
        DestTimeBase(s.srce_time_base.num, s.srce_time_base.den,
                     s.dest_frame_rate.num, s.dest_frame_rate.den,
                     s.dest_time_base.num, s.dest_time_base.den)

\* time base 1/4 and 3/2 frames per second give 1/12: a source tick is 3 and
\* a frame interval 8 destination ticks
C15_Witness ==
    /\ s.srce_time_base = [num |-> 1, den |-> 4]
    /\ s.dest_frame_rate = [num |-> 3, den |-> 2]
    /\ s.dest_time_base = [num |-> 1, den |-> 12]
    /\ Rescaled(s, 1) = 3
    /\ av_rescale_q(1, av_inv_q(s.dest_frame_rate), s.dest_time_base) = 8

\* a source time base not in lowest terms: 2/4 and 3/3 give 1/2
C15_WitnessUnreduced ==
    /\ s.srce_time_base = [num |-> 2, den |-> 4]
    /\ s.dest_frame_rate = [num |-> 3, den |-> 3]
    /\ s.dest_time_base = [num |-> 1, den |-> 2]

\* the sample <<job, plane, offset>> lies in a row of the job's slice of the
\* plane, within the samples of that row
InOwnRows(x) ==
    /\ x[3] \div cpy_dst_line_size(td, x[2]) >= slice_start(td, x[2], x[1])
    /\ x[3] \div cpy_dst_line_size(td, x[2]) < slice_end(td, x[2], x[1])
    /\ x[3] % cpy_dst_line_size(td, x[2]) < PlaneWidth(td, x[2])

\* no sample is written by two jobs
DisjointWrites ==
    \A x, y \in dst.written : (x[2] = y[2] /\ x[3] = y[3]) => x[1] = y[1]

\* C16: during one blend worker j writes only samples in the rows
\* [h*j/nb_jobs, h*(j+1)/nb_jobs) of each plane and within the row's sample
\* width, so the samples written by two workers are disjoint, in the 8-bit
\* path and in the 9-12-bit path.
C16_DisjointSlices ==
    td.op = "execute" =>
        /\ \A x \in dst.written : InOwnRows(x)
        /\ DisjointWrites

\* the same for the 8-bit path alone
C16_DisjointSlices8 ==
    (td.op = "execute" /\ td.bitdepth = 8) =>
        /\ \A x \in dst.written : InOwnRows(x)
        /\ DisjointWrites

\* three workers have written their rows of a 3-row 8-bit picture
C16_Witness8 ==
    /\ td.op = "execute"
    /\ td.bitdepth = 8
    /\ td.nb_jobs = 3
    /\ \A j \in Jobs : dst.pos[j][1] = NbPlanes
    /\ \A j \in Jobs : \E x \in dst.written : x[1] = j

\* every job has returned
Joined == td.op = "execute" /\ \A j \in Jobs : dst.pos[j][1] = NbPlanes

\* the jobs that wrote the sample of the row and column of the plane
Writers(plane, row, col) ==
    {x[1] : x \in {y \in dst.written :
                      y[2] = plane /\ y[3] = row * cpy_dst_line_size(td, plane) + col}}

\* C17: after the blend every row of every plane of the output frame has been
\* written by exactly one worker, also when the height is not a multiple of
\* the vertical chroma subsampling factor and when there are more jobs than
\* chroma rows.
C17_EveryRowOnce ==
    Joined =>
        \A plane \in 0 .. NbPlanes - 1 :
            \A row \in 0 .. PlaneRows(td, plane) - 1 :
                \A col \in 0 .. PlaneWidth(td, plane) - 1 :
                    Cardinality(Writers(plane, row, col)) = 1

\* the same for the 8-bit path and heights that are multiples of the
\* vertical chroma subsampling factor
C17_EveryRowOnceEvenHeight8 ==
    (Joined /\ td.bitdepth = 8 /\ td.h % Pow2(td.vsub) = 0) =>
        \A plane \in 0 .. NbPlanes - 1 :
            \A row \in 0 .. PlaneRows(td, plane) - 1 :
                \A col \in 0 .. PlaneWidth(td, plane) - 1 :
                    Cardinality(Writers(plane, row, col)) = 1

\* two jobs and one chroma row: yuv420p, two rows
C17_WitnessEvenHeight8 ==
    /\ Joined
    /\ td.bitdepth = 8 /\ td.vsub = 1 /\ td.h = 2 /\ td.nb_jobs = 2
    /\ Writers(1, 0, 0) = {1}

\* the contract of the blend engine for the emitted frame w
BlendContract(w) ==
    /\ w.f0 # 0 /\ w.f1 # 0
    /\ w.src1 = w.f0 /\ w.src2 = w.f1
    /\ w.pts0 <= w.pts /\ w.pts < w.pts1
    /\ 0 <= w.interpolate /\ w.interpolate <= s.max
    /\ w.w2 = w.interpolate
    /\ w.w1 = s.max - w.interpolate
    /\ w.w1 + w.w2 = s.max
    /\ 0 <= w.w1 /\ w.w1 < 65536
    /\ 0 <= w.w2 /\ w.w2 < 65536

\* C18: whenever the blend engine made a frame, also while flushing and in
\* the window after a discontinuity, both f0 and f1 were held, the candidate
\* was in [pts0, pts1), 0 <= ratio <= max, weight2 = ratio, weight1 = max -
\* ratio, both within their 16-bit fields; a flushed candidate (>= pts1) is
\* never blended.
C18_BlendContract ==
    \A i \in 1 .. Len(out) : out[i].w.kind = "blend" => BlendContract(out[i].w)

\* C19: whenever both f0 and f1 are held, pts1 > pts0 and delta = pts1 - pts0
\* > 0; every window shift recomputes delta from the new pts1 and the pts1
\* before it, and no ratio is computed with a zero or negative delta.
C19_WindowOrdered ==
    /\ (s.f0 # NULL /\ s.f1 # NULL) =>
          /\ s.pts1 > s.pts0
          /\ s.delta = s.pts1 - s.pts0
          /\ s.delta > 0
    /\ call.accepted =>
          /\ s.pts1 = Rescaled(s, call.frame.pts)
          /\ s.pts0 = call.pre.pts1
          /\ s.delta = s.pts1 - s.pts0
    /\ \A i \in 1 .. Len(out) : out[i].w.f0 # 0 => out[i].w.pts1 - out[i].w.pts0 > 0

\* the window has shifted twice and frames were made in the second window
C19_Witness ==
    /\ call.accepted
    /\ s.f0.id = 2 /\ s.f1.id = 3
    /\ s.pts0 > 0
    /\ s.delta > 0
    /\ Len(out) > 1
    /\ out[Len(out)].w.interpolate > 0

\* a discontinuity: the window was shifted with a negative delta and f0 cleared
C19_WitnessDiscontinuity ==
    /\ call.accepted
    /\ s.f0 = NULL
    /\ s.delta < 0
    /\ s.delta = s.pts1 - s.pts0

\* the step shifted the window
Shifted == call'.op = "filter_frame" /\ call'.accepted

\* C20: the cached scene score belongs to the current window pair: a window
\* shift marks it unset, get_scene_score is called at most once between two
\* shifts (for the first candidate that needs it, with the pair of the
\* window), every later candidate of the window reuses the value, and a
\* score of exactly 0 is cached like any other.
C20_ScoreCache ==
    [][/\ s'.scored <= 1
       /\ (Shifted /\ s'.scored = 0) => s'.score = -DblUnit
       /\ (Shifted /\ s'.scored = 1) =>
             /\ s'.f0 # NULL
             /\ s'.score = get_scene_score(s, s'.f0, s'.f1).ret
             /\ s'.score >= 0
       /\ (~Shifted /\ s.scored = 1) =>
             s'.scored = 1 /\ s'.score = s.score /\ s'.prev_mafd = s.prev_mafd
       /\ \A i, j \in 1 .. Len(out') :
             (i < j /\ out'[i].w.scored = 1) =>
                 out'[j].w.scored = 1 /\ out'[j].w.score = out'[i].w.score]_vars

\* a score of exactly 0 was computed once and used by two candidates of the
\* second window
C20_Witness ==
    /\ ScdEnabled
    /\ s.scored = 1
    /\ s.score = 0
    /\ \E i \in 2 .. Len(out) :
          /\ InBlendRange(out[i].w) /\ out[i].w.score = 0
          /\ InBlendRange(out[i - 1].w) /\ out[i - 1].w.score = 0
          /\ out[i].w.f0 = out[i - 1].w.f0
    /\ out[1].w.f0 = 2

\* the score of a window is unset after a call that needed no score
C20_WitnessUnset ==
    /\ ScdEnabled
    /\ call.accepted
    /\ s.f0.id = 2
    /\ s.scored = 0
    /\ s.score = -DblUnit
    /\ Len(out) > 0

\* the MAFD of the pair (a, b), as get_scene_score stores it
Mafd(a, b) == get_scene_score(s, a, b).prev_mafd

\* the step called get_scene_score for the pair of the window
ScoredNow == s'.scored = 1 /\ (Shifted \/ s.scored = 0)

\* C21: with scene change detection enabled every pair (f0, f1) that enters
\* the window is scored exactly once, none is skipped or replayed, and the
\* previous MAFD used to score a pair is the MAFD of the pair right before it.
C21_EveryPairScoredOnce ==
    [][ScdEnabled =>
          /\ (Shifted /\ s.f0 # NULL /\ s.f1 # NULL) => s.scored = 1
          /\ s'.scored <= 1
          /\ (ScoredNow /\ Shifted /\ s.f0 # NULL) => s.prev_mafd = Mafd(s.f0, s.f1)]_vars

\* the input frames handed to filter_frame so far
Handed == 1 .. nframes

\* the core holds the frame i as f0 or f1
Held(i) == (s.f0 # NULL /\ s.f0.id = i) \/ (s.f1 # NULL /\ s.f1.id = i)

\* the frames handed in and not released yet
Unreleased == {i \in Handed : dst.count[i] = 0}

\* the last call dropped its frame for a missing or duplicate timestamp
Dropped == call.op = "filter_frame" /\ ~call.accepted

\* C22: every input frame handed to filter_frame is released exactly once by
\* teardown: a frame of the window when it is shifted out of f0, on a
\* discontinuity or at teardown, a rejected frame when it is dropped; the
\* core holds at most two input frames (f0 and f1), none leaks and none is
\* released twice.
C22_ReleasedExactlyOnce ==
    /\ \A i \in Handed :
          /\ dst.count[i] <= 1
          /\ dst.count[i] = 0 => Held(i)
          /\ td.torn => dst.count[i] = 1
    /\ Dropped => dst.count[call.frame.id] = 1
    /\ Cardinality(Unreleased) <= 2

\* C22 for the frames that entered the window: released exactly once, when
\* they leave the window or at teardown; a dropped frame is never released
C22_WindowFramesReleasedOnce ==
    \A i \in Handed :
        IF i \in dst.entered
        THEN /\ dst.count[i] <= 1
             /\ dst.count[i] = 0 <=> Held(i)
             /\ td.torn => dst.count[i] = 1
        ELSE dst.count[i] = 0

\* a frame was dropped, a frame was shifted out, and the session was torn
\* down with a frame held
C22_WitnessWindow ==
    /\ td.torn
    /\ nframes = MaxFrames
    /\ \E i \in Handed : i \notin dst.entered
    /\ Cardinality(dst.entered) >= 2

====
